---- MODULE Spec2Model ----
(***************************************************************************)
(* Model of rules_python/piptool.py: the extras satisfiability resolver    *)
(* (determine_possible_extras / is_possible), the generated requirement    *)
(* map (whl_targets) and the generated requirement() lookup.               *)
(*                                                                         *)
(* Strings are sequences of one-character strings, so that str.replace,    *)
(* str.lower and the pkg_resources name conversions are computed character *)
(* by character.                                                           *)
(***************************************************************************)
EXTENDS Integers, Sequences, FiniteSets, TLC

VARIABLES whls, pc, possible_extras, runs, mappings

vars == <<whls, pc, possible_extras, runs, mappings>>

(***************************************************************************)
(* Bounds of the model.                                                    *)
(***************************************************************************)
\* Total number of requirement strings declared by the extras of all wheels.
MaxReqs == 2
\* Number of times determine_possible_extras is called on the same list.
MaxRuns == 2
\* Depth at which the interpreter raises RecursionError.  It stands for
\* sys.getrecursionlimit(); any value above the longest acyclic chain of the
\* bounded universes (one frame per (wheel, extra) pair plus one) separates
\* the runs that return from the runs that recurse for ever.
RecursionLimit == 8

(***************************************************************************)
(* Strings.                                                                *)
(***************************************************************************)
\* Python's None; `not extra` (line 88) is also true of the empty string.
None == <<>>

Range(s) == {s[i] : i \in DOMAIN s}

\* str.lower() on one character.
LowerChar(c) ==
  CASE c = "A" -> "a"
    [] c = "B" -> "b"
    [] c = "C" -> "c"
    [] c = "X" -> "x"
    [] c = "Y" -> "y"
    [] OTHER -> c

\* str.lower()
Lower(s) == [i \in DOMAIN s |-> LowerChar(s[i])]

\* str.replace("-", "_")
Replace(s) == [i \in DOMAIN s |-> IF s[i] = "-" THEN "_" ELSE s[i]]

\* The characters matched by [A-Za-z0-9.] among the characters of the model.
IsAlnum(c) == c \notin {"-", "_", "[", "]"}

RECURSIVE DropRun(_, _)
\* The suffix of s after its leading run of characters that are not in keep.
DropRun(s, keep) ==
  IF s = <<>> \/ Head(s) \in keep \/ IsAlnum(Head(s)) THEN s
  ELSE DropRun(Tail(s), keep)

RECURSIVE SubRuns(_, _, _)
\* re.sub('[^A-Za-z0-9.<keep>]+', by, s)
SubRuns(s, keep, by) ==
  IF s = <<>> THEN <<>>
  ELSE IF Head(s) \in keep \/ IsAlnum(Head(s))
       THEN <<Head(s)>> \o SubRuns(Tail(s), keep, by)
       ELSE <<by>> \o SubRuns(DropRun(Tail(s), keep), keep, by)

\* pkg_resources.safe_name: runs of other characters become one '-'.
safe_name(name) == SubRuns(name, {}, "-")

\* pkg_resources.safe_extra: runs of other characters become one '_', lower-cased.
safe_extra(extra) == Lower(SubRuns(extra, {"-"}, "_"))

\* pkg_resources.Requirement.parse(extra_dep): project_name and extras.
Parse(extra_dep) ==
  [project_name |-> safe_name(extra_dep.name),
   extras       |-> [i \in DOMAIN extra_dep.extras |-> safe_extra(extra_dep.extras[i])]]

\* The normalized identity of a package name: lower-cased, '-' as '_'.
Normalize(name) == Lower(Replace(name))

(***************************************************************************)
(* The wheels the run may find.  A Wheel is read through distribution(),   *)
(* extras() and dependencies(extra); its metadata is the record below.     *)
(***************************************************************************)
\* Wheel.distribution() is the part of the file name before the first '-'
\* (PEP 427), so it never holds a '-': requirement() replaces '-' by '_'
\* before it looks a name up among the keys made of it (lines 150, 178).
\* Letter case is kept: line 150 lower-cases it.
DistNames == { <<"a", "_", "b">>, <<"B">> }

\* Package names as the requirement strings of the metadata spell them: the
\* two wheels (PEP 503 spelling with '-'), a name that differs from a
\* wheel's only in letter case, and a package that no wheel provides.
HyphenName == <<"a", "-", "b">>

ExactName == <<"B">>

OtherCase == <<"b">>

NoSuchName == <<"c">>

ExtraNames == { <<"x">>, <<"y">> }

\* The requirement string "name[extras]".
Req(name, es) == [name |-> name, extras |-> es]

\* The requirement strings the extras of the wheels are made of.
Requirements ==
  { Req(HyphenName, << <<"x">> >>),
    Req(ExactName, <<>>), Req(ExactName, << <<"y">> >>),
    Req(ExactName, << <<"x">>, <<"y">> >>),
    Req(OtherCase, <<>>), Req(NoSuchName, <<>>) }

\* The unconditional requirements of a wheel: none, or one nobody provides.
BaseDeps == { <<>>, << Req(NoSuchName, <<>>) >> }

\* The lists of extras a wheel declares: no extra twice.
ExtraSeqs ==
  {<<>>} \cup {<<e>> : e \in ExtraNames}
         \cup {<<e, f>> : <<e, f>> \in {p \in ExtraNames \X ExtraNames : p[1] # p[2]}}

Lists(k) == [1..k -> Requirements]

DepLists(n) == UNION {Lists(k) : k \in 0..n}

\* The requirement lists of the extras es, n requirement strings at most.
ExtraDeps(es, n) ==
  IF Len(es) = 0 THEN { <<>> }
  ELSE IF Len(es) = 1 THEN { (es[1] :> l) : l \in DepLists(n) }
  ELSE UNION { { (es[1] :> l1) @@ (es[2] :> l2) : l1 \in Lists(k), l2 \in DepLists(n - k) }
               : k \in 0..n }

\* The wheels of distribution d that declare n requirement strings at most.
Wheels(d, n) ==
  UNION { UNION { { [distribution |-> d, extras |-> es, requires |-> (None :> b) @@ f]
                    : f \in ExtraDeps(es, n - Len(b)) }
                  : es \in ExtraSeqs }
          : b \in {l \in BaseDeps : Len(l) <= n} }

\* The requirement strings the wheels ws declare.
Used(ws) ==
  LET RECURSIVE count(_, _)
      count(i, j) ==
        IF i = 0 THEN 0
        ELSE IF j = 0 THEN Len(ws[i].requires[None]) + count(i - 1, IF i = 1 THEN 0 ELSE Len(ws[i - 1].extras))
        ELSE Len(ws[i].requires[ws[i].extras[j]]) + count(i, j - 1)
  IN IF ws = <<>> THEN 0 ELSE count(Len(ws), Len(ws[Len(ws)].extras))

\* Wheel.extras()
extras(whl) == whl.extras

\* Wheel.dependencies(extra): the requirement strings declared for the extra.
dependencies(whl, extra) ==
  IF extra \in DOMAIN whl.requires THEN whl.requires[extra] ELSE <<>>

(***************************************************************************)
(* determine_possible_extras                                               *)
(***************************************************************************)
\* As WhlMap, but only the wheel listed last is kept.
WhlMapLastOnly(ws) ==
  IF ws = <<>> THEN <<>> ELSE (ws[Len(ws)].distribution :> ws[Len(ws)])

\* whl_map = {whl.distribution(): whl for whl in whls}: a later wheel of
\* the same distribution replaces an earlier one.
WhlMap(ws) ==
  [d \in {ws[i].distribution : i \in DOMAIN ws} |->
     ws[CHOOSE i \in DOMAIN ws :
          /\ ws[i].distribution = d
          /\ \A j \in DOMAIN ws : ws[j].distribution = d => j <= i]]

MissingResultTrue == "True"

\* return False when the wheel is not there (lines 83-84)
MissingResult == "False"

RECURSIVE is_possible(_, _, _, _)
RECURSIVE req_possible(_, _, _)
RECURSIVE req_extras_loop(_, _, _, _)
RECURSIVE extra_deps_loop(_, _, _, _)

\* As BaseResult, but the wheel's own unconditional requirements are walked.
BaseResultWalksBase(whl_map, whl, depth) ==
  extra_deps_loop(whl_map, dependencies(whl, None), 1, depth)

\* return True when no extra is asked for (lines 88-89)
BaseResult(whl_map, whl, depth) == "True"

\* for e in req.extras: if not is_possible(req.project_name, e): return False
req_extras_loop(whl_map, req, i, depth) ==
  IF i > Len(req.extras) THEN "True"
  ELSE LET r == is_possible(whl_map, req.project_name, req.extras[i], depth + 1)
       IN IF r # "True" THEN r
          ELSE req_extras_loop(whl_map, req, i + 1, depth)

\* As req_possible, but the extras the requirement asks for are not checked.
req_possible_no_extras(whl_map, req, depth) ==
  is_possible(whl_map, req.project_name, None, depth + 1)

\* The checks of one requirement (lines 95-99): the package, then its extras.
req_possible(whl_map, req, depth) ==
  LET r == is_possible(whl_map, req.project_name, None, depth + 1)
  IN IF r # "True" THEN r
     ELSE req_extras_loop(whl_map, req, 1, depth)

\* for extra_dep in whl.dependencies(extra=extra): ... (lines 92-102)
extra_deps_loop(whl_map, deps, i, depth) ==
  IF i > Len(deps) THEN "True"
  ELSE LET r == req_possible(whl_map, Parse(deps[i]), depth)
       IN IF r # "True" THEN r
          ELSE extra_deps_loop(whl_map, deps, i + 1, depth)

\* is_possible(distro, extra), called at the given depth of the call stack:
\* "True", "False", or "RecursionError" when the stack is exhausted (the
\* exception passes through every caller).
is_possible(whl_map, distro, extra, depth) ==
  IF depth > RecursionLimit THEN "RecursionError"
  ELSE LET d == Replace(distro)
       IN IF d \notin DOMAIN whl_map THEN MissingResult
          ELSE IF extra = None THEN BaseResult(whl_map, whl_map[d], depth)
          ELSE extra_deps_loop(whl_map, dependencies(whl_map[d], extra), 1, depth)

\* As possible_list, but without the filter.
possible_list_unfiltered(whl_map, whl) == extras(whl)

\* [extra for extra in whl.extras() if is_possible(whl.distribution(), extra)]
possible_list(whl_map, whl) ==
  SelectSeq(extras(whl), LAMBDA e : is_possible(whl_map, whl.distribution, e, 1) = "True")

\* The call determine_possible_extras(whls): the exception it raises, or the
\* dict it returns, as the list of the values of the wheels in order.
determine_possible_extras(ws) ==
  LET whl_map == WhlMap(ws)
      raises == \E i \in DOMAIN ws : \E e \in Range(extras(ws[i])) :
                  is_possible(whl_map, ws[i].distribution, e, 1) = "RecursionError"
  IN IF raises THEN [raised |-> TRUE, map |-> <<>>]
     ELSE [raised |-> FALSE, map |-> [i \in DOMAIN ws |-> possible_list(whl_map, ws[i])]]

(***************************************************************************)
(* The generated requirement map.                                          *)
(***************************************************************************)
\* As whl_key, but the extra is appended without the brackets.
whl_key_unbracketed(distribution, extra) == Lower(distribution) \o Lower(extra)

\* '"%s"' % whl.distribution().lower()  and
\* '"%s[%s]"' % (whl.distribution().lower(), extra.lower())
whl_key(distribution, extra) ==
  IF extra = None THEN Lower(distribution)
  ELSE Lower(distribution) \o <<"[">> \o Lower(extra) \o <<"]">>

\* The entries of one wheel: the package, then every possible extra.
whl_entries(whl, possible) ==
  << [key |-> whl_key(whl.distribution, None), whl |-> whl.distribution, extra |-> None] >>
  \o [i \in DOMAIN possible |->
        [key |-> whl_key(whl.distribution, possible[i]), whl |-> whl.distribution,
         extra |-> possible[i]]]

\* whl_targets: the entries of all wheels, in the order of whls.
whl_targets(ws, pe) ==
  LET RECURSIVE upto(_)
      upto(i) == IF i = 0 THEN <<>> ELSE upto(i - 1) \o whl_entries(ws[i], pe[i])
  IN upto(Len(ws))

\* requirement(name): the entries _requirements holds under the looked-up key.
requirement(entries, name) ==
  {i \in DOMAIN entries : entries[i].key = Lower(Replace(name))}

(***************************************************************************)
(* main()                                                                  *)
(***************************************************************************)
NoResult == [raised |-> FALSE, map |-> <<>>]

Init ==
  /\ whls = <<>>
  /\ pc = "discover"
  /\ possible_extras = NoResult
  /\ runs = 0
  /\ mappings = <<>>

\* whls = [Wheel(path) for path in list_whls()]: one more wheel is listed.
Discover ==
  /\ pc = "discover"
  /\ \E d \in DistNames \ {whls[i].distribution : i \in DOMAIN whls} :
       \E w \in Wheels(d, MaxReqs - Used(whls)) : whls' = Append(whls, w)
  /\ UNCHANGED <<pc, possible_extras, runs, mappings>>

\* As Resolve, but the extras found impossible are struck from the wheels.
ResolvePrunes ==
  /\ pc \in {"discover", "resolved"}
  /\ runs < MaxRuns
  /\ possible_extras' = determine_possible_extras(whls)
  /\ pc' = IF possible_extras'.raised THEN "crashed" ELSE "resolved"
  /\ runs' = runs + 1
  /\ whls' = IF possible_extras'.raised THEN whls
             ELSE [i \in DOMAIN whls |-> [whls[i] EXCEPT !.extras = possible_extras'.map[i]]]
  /\ UNCHANGED mappings

\* possible_extras = determine_possible_extras(whls)
Resolve ==
  /\ pc \in {"discover", "resolved"}
  /\ runs < MaxRuns
  /\ possible_extras' = determine_possible_extras(whls)
  /\ pc' = IF possible_extras'.raised THEN "crashed" ELSE "resolved"
  /\ runs' = runs + 1
  /\ UNCHANGED <<whls, mappings>>

\* whl_targets = ... and the write of the output file
Render ==
  /\ pc = "resolved"
  /\ runs = 1
  /\ mappings' = whl_targets(whls, possible_extras.map)
  /\ pc' = "rendered"
  /\ UNCHANGED <<whls, possible_extras, runs>>

Next == Discover \/ Resolve \/ Render

Spec == Init /\ [][Next]_vars

(***************************************************************************)
(* Properties.                                                             *)
(***************************************************************************)
\* The universe of the wheels listed so far.
whl_map_now == WhlMap(whls)

\* The normalized identities of the wheels ws.
Identities(ws) == {Normalize(ws[i].distribution) : i \in DOMAIN ws}

\* The names is_possible is asked about: every spelling of the catalogue.
LookupNames ==
  DistNames \cup {HyphenName, ExactName, OtherCase, NoSuchName, <<"A", "-", "b">>}

\* An extra, or none.
ExtraOrNone == ExtraNames \cup {None}

\* determine_possible_extras has returned a dict.
Returned == pc \in {"resolved", "rendered"}

\* The first call of determine_possible_extras on the listed wheels has just
\* ended, with a dict or with an exception: is_possible is the function
\* defined by that call, over the whl_map of that call.
Called == runs = 1 /\ pc \in {"resolved", "crashed"}

\* The wheel of distribution d whose one extra e requires deps.
OneExtraWheel(d, e, deps) ==
  [distribution |-> d, extras |-> <<e>>, requires |-> (None :> <<>>) @@ (e :> deps)]

\* A: extra x requires B[y];  B: extra y requires A[x].
MutualCycle ==
  << OneExtraWheel(<<"a", "_", "b">>, <<"x">>, << Req(ExactName, << <<"y">> >>) >>),
     OneExtraWheel(<<"B">>, <<"y">>, << Req(HyphenName, << <<"x">> >>) >>) >>

\* P: extra x requires P[x].
SelfCycle ==
  << OneExtraWheel(<<"a", "_", "b">>, <<"x">>, << Req(HyphenName, << <<"x">> >>) >>) >>

\* C1: determine_possible_extras returns on every universe, the cyclic ones
\* included: no call ends in an error (here: the exhausted call stack).
C1_ResolveTerminates == pc # "crashed"

\* C2: in the universe {A: x requires B[y], B: y requires A[x]} the re-entered
\* pair counts as false, and the map returned is {A: [], B: []}.
C2_CycleResolvesToEmpty ==
  (whls = MutualCycle /\ runs >= 1)
    => (pc # "crashed" /\ possible_extras = [raised |-> FALSE, map |-> << <<>>, <<>> >>])

\* C3: for a name whose normalized identity no wheel of the universe has,
\* is_possible is the plain result False, with any extra and with none.
C3_AbsentIsFalse ==
  Called =>
    \A P \in LookupNames :
      Normalize(P) \notin Identities(whls)
        => \A e \in ExtraOrNone : is_possible(whl_map_now, P, e, 1) = "False"

\* A returned map where an extra was dropped because the one package it
\* requires is in no wheel of the universe.
C3_Witness ==
  /\ Returned
  /\ \E i \in DOMAIN whls : \E e \in Range(whls[i].extras) :
       /\ Len(whls[i].requires[e]) = 1
       /\ Normalize(whls[i].requires[e][1].name) \notin Identities(whls)
       /\ e \notin Range(possible_extras.map[i])

\* The lookup of line 83 finds a wheel for the name.
Present(whl_map, name) == Replace(name) \in DOMAIN whl_map

\* The requirements of the extra of the wheel found for the name, parsed.
ParsedDeps(whl_map, name, extra) ==
  LET deps == dependencies(whl_map[Replace(name)], extra)
  IN {Parse(deps[i]) : i \in DOMAIN deps}

\* The (wheel, extra) pairs the checks of the pair n ask about next.
Succ(whl_map, n) ==
  {<<Replace(r.project_name), e>> :
     <<r, e>> \in {p \in ParsedDeps(whl_map, n[1], n[2]) \X ExtraNames :
                     /\ Present(whl_map, p[1].project_name)
                     /\ p[2] \in Range(p[1].extras)}}

RECURSIVE ReachFrom(_, _)
\* The pairs reached from the pairs S, S included.
ReachFrom(whl_map, S) ==
  LET T == S \cup UNION {Succ(whl_map, n) : n \in S}
  IN IF T = S THEN S ELSE ReachFrom(whl_map, T)

\* No (wheel, extra) pair of the universe requires itself, directly or not.
Acyclic(whl_map) ==
  \A n \in (DOMAIN whl_map) \X ExtraNames : n \notin ReachFrom(whl_map, Succ(whl_map, n))

\* C4: in an acyclic universe, for a package P that is there and an extra E,
\* is_possible(P, E) is true exactly if every requirement of E names a
\* package that is there and every extra it asks for is possible; it is
\* false otherwise.
C4_ExtraIffAllRequirements ==
  (Called /\ Acyclic(whl_map_now)) =>
    \A P \in LookupNames : \A E \in ExtraNames :
      Present(whl_map_now, P) =>
        LET all == \A r \in ParsedDeps(whl_map_now, P, E) :
                     /\ Present(whl_map_now, r.project_name)
                     /\ \A e \in Range(r.extras) :
                          is_possible(whl_map_now, r.project_name, e, 1) = "True"
        IN is_possible(whl_map_now, P, E, 1) = (IF all THEN "True" ELSE "False")

\* An acyclic universe, resolved: an extra is dropped although the package
\* its requirement names is there, because the extra it asks of that package
\* requires a package that is not (the absent package is one level down).
C4_Witness ==
  /\ Returned
  /\ Acyclic(whl_map_now)
  /\ \E i \in DOMAIN whls : \E E \in Range(whls[i].extras) \ Range(possible_extras.map[i]) :
       /\ ParsedDeps(whl_map_now, whls[i].distribution, E) # {}
       /\ \A r \in ParsedDeps(whl_map_now, whls[i].distribution, E) :
            /\ Present(whl_map_now, r.project_name)
            /\ r.extras # <<>>
            /\ \E q \in ParsedDeps(whl_map_now, r.project_name, r.extras[1]) :
                 ~Present(whl_map_now, q.project_name)

\* The place of x in the list seq.
PositionIn(seq, x) == CHOOSE k \in DOMAIN seq : seq[k] = x

\* A: extra x requires B;  B: no extras.
ExampleAB ==
  << OneExtraWheel(<<"a", "_", "b">>, <<"x">>, << Req(ExactName, <<>>) >>),
     [distribution |-> <<"B">>, extras |-> <<>>, requires |-> (None :> <<>>)] >>

\* C5: the map a call returns has one entry per wheel; the entry of a wheel holds
\* exactly the extras the wheel declares for which is_possible is true, each
\* once, in the order the wheel declares them; {A: x requires B, B: no
\* extras} yields {A: [x], B: []}.
C5_MapIsFilteredDeclaration ==
  pc = "resolved" =>
    /\ DOMAIN possible_extras.map = DOMAIN whls
    /\ \A i \in DOMAIN whls :
         LET got == possible_extras.map[i]
             decl == whls[i].extras
         IN /\ Range(got) = {e \in Range(decl) :
                               is_possible(whl_map_now, whls[i].distribution, e, 1) = "True"}
            /\ \A j, k \in DOMAIN got :
                 j < k => PositionIn(decl, got[j]) < PositionIn(decl, got[k])
    /\ whls = ExampleAB => possible_extras.map = << << <<"x">> >>, <<>> >>

\* A returned map in which a wheel of two extras keeps only the second one.
C5_Witness ==
  /\ Returned
  /\ \E i \in DOMAIN whls :
       /\ Len(whls[i].extras) = 2
       /\ possible_extras.map[i] = << whls[i].extras[2] >>

\* C6: names of one normalized form get one answer from is_possible, so a
\* requirement spelled in another letter case, or with '-' for '_', finds
\* the wheel.
C6_LookupIsNormalized ==
  Called =>
    \A n1, n2 \in LookupNames :
      Normalize(n1) = Normalize(n2)
        => \A e \in ExtraOrNone :
             is_possible(whl_map_now, n1, e, 1) = is_possible(whl_map_now, n2, e, 1)

\* C7: is_possible(P, none) is true as soon as a wheel is found for P,
\* whatever the wheel itself requires; an extra that requires plain P is
\* then possible.
C7_BaseIsPresence ==
  Called =>
    /\ \A P \in LookupNames :
         Present(whl_map_now, P) => is_possible(whl_map_now, P, None, 1) = "True"
    /\ \A i \in DOMAIN whls : \A E \in Range(whls[i].extras) :
         LET rs == ParsedDeps(whl_map_now, whls[i].distribution, E)
         IN (/\ rs # {}
             /\ \A r \in rs : r.extras = <<>> /\ Present(whl_map_now, r.project_name))
              => is_possible(whl_map_now, whls[i].distribution, E, 1) = "True"

\* A returned map that keeps an extra whose one requirement is a wheel that
\* itself requires, unconditionally, a package that is in no wheel.
C7_Witness ==
  /\ Returned
  /\ \E i \in DOMAIN whls : \E E \in Range(possible_extras.map[i]) :
       \E r \in ParsedDeps(whl_map_now, whls[i].distribution, E) :
         /\ r.extras = <<>>
         /\ Replace(r.project_name) # whls[i].distribution
         /\ LET base == dependencies(whl_map_now[Replace(r.project_name)], None)
            IN /\ base # <<>>
               /\ ~Present(whl_map_now, Parse(base[1]).project_name)

\* Distribution names and extras the keys are compared over: the wheels'
\* own, other letter cases of them, and names that join up to the same text.
KeyDists == DistNames \cup { <<"A", "_", "b">>, <<"b">>, <<"b", "y">> }

KeyExtras == ExtraNames \cup { <<"X">>, <<"Y">>, None }

\* The key of every pair of them, with what the key is said to depend on.
KeyTable ==
  { [key |-> whl_key(p[1], p[2]), identity |-> Normalize(p[1]), extra |-> Lower(p[2])]
    : p \in KeyDists \X KeyExtras }

\* C8: the key of a (package, extra) pair depends only on the normalized
\* identity and the lower-cased extra, pairs that differ in either get
\* different keys, and no key of an extra is the key of a package.
C8_KeysAreCollisionFree ==
  pc = "rendered" =>
    LET of == [i \in DOMAIN mappings |->
                 [key |-> mappings[i].key, identity |-> Normalize(mappings[i].whl),
                  extra |-> Lower(mappings[i].extra)]]
        same(s, t) == s.identity = t.identity /\ s.extra = t.extra
    IN /\ \A i, j \in DOMAIN of : (of[i].key = of[j].key) <=> same(of[i], of[j])
       /\ \A i \in DOMAIN of : \A t \in KeyTable : (of[i].key = t.key) <=> same(of[i], t)
       /\ \A n \in LookupNames : Cardinality(requirement(mappings, n)) <= 1

\* A rendered map with the key "b[y]" of the extra y of the wheel B, found
\* next to the key "b" of the wheel itself.
C8_Witness ==
  /\ pc = "rendered"
  /\ \E i, j \in DOMAIN mappings :
       /\ mappings[i].key = <<"b", "[", "y", "]">>
       /\ mappings[j].key = <<"b">>
       /\ requirement(mappings, ExactName) = {j}

RemoveAt(seq, i) == [k \in 1..(Len(seq) - 1) |-> IF k < i THEN seq[k] ELSE seq[k + 1]]

\* C10: what is possible in a universe is possible in the universe with one
\* more wheel of an identity that was not there.
C10_MonotoneInUniverse ==
  Called =>
    \A i \in DOMAIN whls :
      LET rest == RemoveAt(whls, i)
          before == WhlMap(rest)
          after == WhlMap(whls)
      IN Normalize(whls[i].distribution) \notin Identities(rest) =>
           \A P \in LookupNames : \A E \in ExtraOrNone :
             is_possible(before, P, E, 1) = "True" => is_possible(after, P, E, 1) = "True"

\* A universe of two wheels, resolved, where an extra of one wheel with a
\* requirement of its own was already possible without the other wheel.
C10_Witness ==
  /\ Returned
  /\ Len(whls) = 2
  /\ \E i \in DOMAIN whls : \E E \in Range(possible_extras.map[i]) :
       /\ dependencies(whls[i], E) # <<>>
       /\ is_possible(WhlMap(<<whls[i]>>), whls[i].distribution, E, 1) = "True"

====
